---- MODULE Spec2Model ----
(***************************************************************************)
(* A model of fibsem_tools/io/multiscale.py: the countless majority-vote   *)
(* kernel, the mode_reduce dispatch, and Multiscales.store together with   *)
(* the execution of the deferred chunk writes it returns.                  *)
(***************************************************************************)
EXTENDS Integers, Sequences, FiniteSets, TLC

VARIABLES
    array,        \* mode_reduce / countless argument: n-d index tuple -> code
    window_size,  \* the per-axis factor
    blocks,       \* windows per axis: the array's shape is window_size * blocks
    bits,         \* dtype of the array: 0 = no wrap-around, w = unsigned w-bit
    result,       \* what the call returned or raised
    kpc           \* "ready" before the call, "done" after it

VARIABLES
    arrays,       \* Multiscales.arrays: the levels in order, each with its key,
                  \* shape, native chunksize, attrs and coordinate transform
    attrs,        \* Multiscales.attrs
    chunks,       \* store() argument: None, a tuple, or a dict of tuples
    multiscale_metadata,    \* store() argument
    propagate_array_attrs,  \* store() argument
    locking,      \* store() argument
    client,       \* store() argument: TRUE for a distributed.Client, FALSE for None
    call,         \* the arguments initialize_group was called with, if it was
    group,        \* the destination group and arrays the external store holds
    store_arrays, \* the destination handles store() returned
    storage_ops,  \* the deferred write operations store() returned, as they run
    spc           \* "ready" before store(), then "returned" or the exception

kvars == <<array, window_size, blocks, bits, result, kpc>>
svars == <<arrays, attrs, chunks, multiscale_metadata, propagate_array_attrs,
           locking, client, call, group, store_arrays, storage_ops, spc>>
vars == <<kvars, svars>>

----------------------------------------------------------------------------
(* Bounds of the model *)

\* every pattern of equal and different elements of a window of up to 8
\* elements is enumerated, its codes shifted by each base in 0 .. MaxBase
MaxBase == 1
\* the majority value of the 16-element windows is one of 0 .. BigCode
BigCode == 0
\* width of the unsigned dtype of the wrap-around specification
Width == 8
\* deferred write operations that run at the same time
NWorkers == 2

----------------------------------------------------------------------------
(* Python values *)

\* None (results2 and r_results before the first combination)
NoneVal == -1

RECURSIVE Prod(_)
\* reduce(lambda x, y: x * y, factor)
Prod(factor) == IF Len(factor) = 1 THEN factor[1] ELSE factor[1] * Prod(Tail(factor))

RECURSIVE NdIndex(_)
\* np.ndindex(shape): the index tuples in row-major order (last axis fastest)
NdIndex(shape) ==
    IF shape = << >> THEN << << >> >>
    ELSE LET rest == NdIndex(Tail(shape))
             n == Len(rest)
         IN << >> \o [k \in 1..(shape[1] * n) |->
                        <<(k - 1) \div n>> \o rest[((k - 1) % n) + 1]]

IndexSet(shape) == LET nd == NdIndex(shape) IN {nd[k] : k \in 1..Len(nd)}

\* element j of the strided slice data[o::f] is data[o + j * f], axis by axis
Strided(offset, factor, j) == [a \in 1..Len(factor) |-> offset[a] + j[a] * factor[a]]

\* arithmetic of the array's dtype
Wrap(x) == IF bits = 0 THEN x ELSE x % (2 ^ bits)

----------------------------------------------------------------------------
(* countless *)

\* pick = lambda a, b: a * (a == b)
pick(a, b) == Wrap(a * (IF a = b THEN 1 ELSE 0))

\* lor = lambda x, y: x + (x == 0) * y
lor(x, y) == Wrap(x + (IF x = 0 THEN 1 ELSE 0) * y)

\* "if results is not None: results = lor(results, res) else: results = res"
Accumulate(acc, res) == IF acc = NoneVal THEN res ELSE lor(acc, res)

RECURSIVE Combine(_, _, _, _, _, _)
(* The loop "for combo in combinations(range(n), r)" with its running
   r_results (acc).  The combinations are visited in itertools' order
   (lexicographic): x is the next candidate index, left the number of indices
   still to choose, and sub the value subproblems[0][combo[:-1]] holds for the
   indices chosen so far, which lines 222-236 make the chain
   pick(pick(sections[c0], sections[c1]), sections[c2]) ...  (NoneVal: none
   chosen yet). *)
Combine(sections, acc, sub, x, n, left) ==
    IF x > n - left THEN acc
    ELSE LET res == IF sub = NoneVal THEN sections[x + 1]
                    ELSE pick(sub, sections[x + 1])
             acc1 == IF left = 1 THEN Accumulate(acc, res)
                     ELSE Combine(sections, acc, res, x + 1, n, left - 1)
         IN IF acc1 = NoneVal
            THEN Combine(sections, NoneVal, sub, x + 1, n, left)
            ELSE Combine(sections, acc1, sub, x + 1, n, left)

\* results2: the pairs of combinations(range(len(sections) - 1), 2)
results2(sections) == Combine(sections, NoneVal, NoneVal, 0, Len(sections) - 1, 2)

\* r_results of one pass of "for r in range(3, majority + 1)"
r_results(sections, r) == Combine(sections, NoneVal, NoneVal, 0, Len(sections), r)

\* majority = int(math.ceil(float(mode_of) / 2))
majority(mode_of) == (mode_of + 1) \div 2

RECURSIVE Reverse(_)
Reverse(s) == IF s = << >> THEN << >> ELSE Append(Reverse(Tail(s)), Head(s))

RECURSIVE PassesShort(_, _, _)
\* the passes stopping one short of the majority
PassesShort(sections, r, results) ==
    IF r >= majority(Len(sections)) THEN results
    ELSE PassesShort(sections, r + 1, Append(results, r_results(sections, r)))

RECURSIVE Passes(_, _, _)
\* "for r in range(3, majority + 1): ... results.append(r_results)"
Passes(sections, r, results) ==
    IF r > majority(Len(sections)) THEN results
    ELSE Passes(sections, r + 1, Append(results, r_results(sections, r)))

\* the results left in the order they were appended
ResultsForward(sections) == Passes(sections, 3, <<results2(sections)>>)

\* results = [results2]; the passes append to it; results.reverse()
Results(sections) == Reverse(Passes(sections, 3, <<results2(sections)>>))

RECURSIVE Reduce(_, _)
\* reduce(lor, results): a single element is returned as it is
Reduce(results, n) ==
    IF n = 1 THEN results[1] ELSE lor(Reduce(results, n - 1), results[n])

\* the first section in the place of the last
FirstSection(sections) == sections[1]
\* sections[-1]
LastSection(sections) == sections[Len(sections)]

RECURSIVE Parts(_, _, _, _, _)
\* "for offset in np.ndindex(factor): part = data[o::f] + 1;
\* sections.append(part)", at output position j of each part
Parts(data, factor, j, offsets, sections) ==
    IF Len(sections) = Len(offsets) THEN sections
    ELSE Parts(data, factor, j, offsets,
               Append(sections,
                      Wrap(data[Strided(offsets[Len(sections) + 1], factor, j)] + 1)))

Sections(data, factor, j) == Parts(data, factor, j, NdIndex(factor), << >>)

\* final_result at output position j (the operations are element-wise).
\* lor(None, ...) evaluates None + ..., a TypeError: NoneVal stands for it here
FinalResult(data, factor, j) ==
    LET sections == Sections(data, factor, j)
        results == Results(sections)
        folded == Reduce(results, Len(results))
    IN IF folded = NoneVal THEN NoneVal
       ELSE Wrap(lor(folded, LastSection(sections)) - 1)

\* countless(data, factor); shape is the shape of each part data[o::f], which
\* is the shape of the result
countless(data, factor, shape) ==
    LET final_result == [j \in IndexSet(shape) |-> FinalResult(data, factor, j)]
    IN IF \E j \in IndexSet(shape) : final_result[j] = NoneVal
       THEN [status |-> "TypeError", value |-> << >>]
       ELSE [status |-> "ok", value |-> final_result]

----------------------------------------------------------------------------
(* mode_reduce *)

Count(w, v) == Cardinality({k \in DOMAIN w : w[k] = v})

\* the window of output position j, in np.ndindex order of the factor
Window(data, factor, j) ==
    LET offsets == NdIndex(factor)
    IN [k \in 1..Len(offsets) |-> data[Strided(offsets[k], factor, j)]]

\* xarray_multiscale.reducers.windowed_mode: the exact mode of each window,
\* the smallest of the most frequent values
windowed_mode(data, factor, shape) ==
    [status |-> "ok",
     value |-> [j \in IndexSet(shape) |->
        LET w == Window(data, factor, j)
            best == {w[k] : k \in {k \in DOMAIN w :
                        \A m \in DOMAIN w : Count(w, w[m]) <= Count(w, w[k])}}
        IN CHOOSE v \in best : \A u \in best : v <= u]]

mode_reduce(data, factor, shape) ==
    IF \A a \in DOMAIN factor : factor[a] = 2
    THEN countless(data, factor, shape)
    ELSE windowed_mode(data, factor, shape)

----------------------------------------------------------------------------
(* The arrays and factors the calls are made with *)

Ones(factor) == [a \in DOMAIN factor |-> 1]
Times(factor, b) == [a \in DOMAIN factor |-> factor[a] * b[a]]

RECURSIVE RowMajor(_, _, _)
\* the position of index tuple idx in np.ndindex(shape), from 1
RowMajor(idx, shape, a) ==
    IF a = 0 THEN 1 ELSE (RowMajor(idx, shape, a - 1) - 1) * shape[a] + idx[a] + 1

\* the array of shape `shape` holding the elements of seq in row-major order
FromSeq(seq, shape) ==
    [idx \in IndexSet(shape) |-> seq[RowMajor(idx, shape, Len(shape))]]

SeqMax(w) == CHOOSE v \in {w[k] : k \in DOMAIN w} : \A k \in DOMAIN w : w[k] <= v

RECURSIVE Patterns(_)
\* one window of M elements for every way its elements can be equal to or
\* different from each other: the first element is 0 and each new value is
\* one more than the largest before it
Patterns(M) ==
    IF M = 1 THEN {<<0>>}
    ELSE {Append(w, c) : w \in Patterns(M - 1), c \in 0..(M - 1)}
            \cap {w \in Seq(0..(M - 1)) :
                    w[Len(w)] <= SeqMax(SubSeq(w, 1, Len(w) - 1)) + 1}

Shift(w, base) == [k \in DOMAIN w |-> w[k] + base]

\* the windows of M elements with codes from 0 upwards
Windows(M) == {Shift(w, base) : w \in Patterns(M), base \in 0..MaxBase}

\* 16-element windows with the barest strict majority: M \div 2 - 1 elements,
\* one every `stride` places from rot on, hold v + 1 and the others hold v
SpreadWindows(M) ==
    {[k \in 1..M |->
        IF \E i \in 0..(M \div 2 - 2) : (rot + i * stride) % M = k - 1
        THEN v + 1 ELSE v] :
        rot \in 0..(M - 1), stride \in {1, 3}, v \in 0..BigCode}

NoResult == [status |-> "none", value |-> << >>]

\* no Multiscales object is in play
StoreIdle ==
    /\ arrays = << >> /\ attrs = << >> /\ chunks = << >>
    /\ multiscale_metadata = FALSE /\ propagate_array_attrs = FALSE
    /\ locking = FALSE /\ client = FALSE
    /\ call = << >> /\ group = << >> /\ store_arrays = << >>
    /\ storage_ops = << >> /\ spc = "idle"

KernelFactors == {<<2, 2>>, <<3, 2>>, <<2, 2, 2>>}

\* countless on every window of 4, 6 and 8 elements
InitKernel ==
    /\ \E f \in KernelFactors :
          /\ window_size = f
          /\ blocks = Ones(f)
          /\ array \in {FromSeq(w, f) : w \in Windows(Prod(f))}
    /\ bits = 0
    /\ result = NoResult
    /\ kpc = "ready"
    /\ StoreIdle

\* countless on the windows built from factor 2 on every axis
InitMajority ==
    /\ \E f \in {<<2, 2>>, <<2, 2, 2>>, <<2, 2, 2, 2>>} :
          /\ window_size = f
          /\ blocks = Ones(f)
          /\ array \in {FromSeq(w, f) :
                          w \in IF Prod(f) = 16 THEN SpreadWindows(16)
                                ELSE Windows(Prod(f))}
    /\ bits = 0
    /\ result = NoResult
    /\ kpc = "ready"
    /\ StoreIdle

\* the codes of w counted down from the largest code of the dtype
FromTop(w) == [k \in DOMAIN w |-> 2 ^ Width - 1 - w[k]]

\* countless on arrays of an unsigned dtype of Width bits
InitUnsigned ==
    /\ \E f \in {<<2, 2>>, <<2, 2, 2>>} :
          /\ window_size = f
          /\ blocks = Ones(f)
          /\ array \in {FromSeq(w, f) : w \in Patterns(Prod(f))}
                        \cup {FromSeq(FromTop(w), f) : w \in Patterns(Prod(f))}
    /\ bits = Width
    /\ result = NoResult
    /\ kpc = "ready"
    /\ StoreIdle

\* mode_reduce on arrays of one or two windows along the first axis
InitReduce ==
    /\ \E f \in {<<2>>, <<3>>, <<2, 2>>, <<2, 1>>} : \E n \in 1..2 :
          /\ window_size = f
          /\ blocks = [a \in DOMAIN f |-> IF a = 1 THEN n ELSE 1]
          /\ array \in {FromSeq(Shift(w, base), Times(f, blocks)) :
                          w \in [1..(n * Prod(f)) -> 0..1], base \in 0..MaxBase}
    /\ bits = 0
    /\ result = NoResult
    /\ kpc = "ready"
    /\ StoreIdle

\* a call countless(array, window_size)
Countless ==
    /\ kpc = "ready"
    /\ result' = countless(array, window_size, blocks)
    /\ kpc' = "done"
    /\ UNCHANGED <<array, window_size, blocks, bits>>
    /\ UNCHANGED svars

\* a call mode_reduce(array, window_size)
ModeReduce ==
    /\ kpc = "ready"
    /\ result' = mode_reduce(array, window_size, blocks)
    /\ kpc' = "done"
    /\ UNCHANGED <<array, window_size, blocks, bits>>
    /\ UNCHANGED svars

NextKernel == Countless
NextReduce == ModeReduce

SpecKernel == InitKernel /\ [][NextKernel]_vars
SpecMajority == InitMajority /\ [][NextKernel]_vars
SpecUnsigned == InitUnsigned /\ [][NextKernel]_vars
SpecReduce == InitReduce /\ [][NextReduce]_vars

----------------------------------------------------------------------------
(* Properties of countless and mode_reduce *)

Returned == kpc = "done" /\ result.status = "ok"

\* the single window of an array of one block
TheWindow == Window(array, window_size, [a \in DOMAIN window_size |-> 0])
TheResult == result.value[[a \in DOMAIN window_size |-> 0]]
WindowCodes == {TheWindow[k] : k \in DOMAIN TheWindow}

StrictMajority(v) == 2 * Count(TheWindow, v) > Len(TheWindow)
NoStrictMajority == \A v \in WindowCodes : ~StrictMajority(v)
\* no two of the first M - 1 elements of the window are equal
FirstDistinct ==
    \A k, m \in 1..(Len(TheWindow) - 1) : k # m => TheWindow[k] # TheWindow[m]

\* C1: a value in strictly more than M / 2 places of a window built from
\* factor 2 on every axis (M = 4, 8, 16) is what countless returns, the code 0
\* included
C1_StrictMajorityReturned ==
    kpc = "done" =>
        /\ result.status = "ok"
        /\ \A v \in WindowCodes : StrictMajority(v) => TheResult = v

\* a window of 16 elements, nine of them the code 0 and the last one not,
\* for which 0 was returned
C1_Witness ==
    /\ Returned
    /\ Len(TheWindow) = 16
    /\ Count(TheWindow, 0) = 9
    /\ TheWindow[16] # 0
    /\ TheResult = 0

\* C7: the value countless returns for a window of 4, 6 or 8 elements occurs
\* in it at least as often as every other value
C7_ReturnsAMode ==
    kpc = "done" =>
        /\ result.status = "ok"
        /\ \A u \in WindowCodes : Count(TheWindow, u) <= Count(TheWindow, TheResult)

\* a window of 6 elements without a strict majority whose last element is not
\* a mode, and a mode was returned
C7_Witness ==
    /\ Returned
    /\ Len(TheWindow) = 6
    /\ NoStrictMajority
    /\ Count(TheWindow, TheWindow[6]) = 1
    /\ Count(TheWindow, TheResult) = 3

\* C8 as stated: without a strict majority the value of the last section is
\* returned
C8_LastWithoutMajority ==
    (Returned /\ NoStrictMajority) => TheResult = TheWindow[Len(TheWindow)]

\* C8 amended: when no two of the first M - 1 elements are equal, the value of
\* the last section is returned
C8_LastWhenFirstDistinct ==
    (Returned /\ FirstDistinct) => TheResult = TheWindow[Len(TheWindow)]

\* a window of 8 elements, the first 7 all different, the last returned
C8_Witness ==
    /\ Returned
    /\ Len(TheWindow) = 8
    /\ FirstDistinct
    /\ TheWindow[8] = TheWindow[3]
    /\ TheResult = TheWindow[8]

\* C9: with every entry of window_size equal to 2, mode_reduce returns one
\* value per window and does not raise
C9_FastPathReturns ==
    (kpc = "done" /\ \A a \in DOMAIN window_size : window_size[a] = 2) =>
        /\ result.status = "ok"
        /\ DOMAIN result.value = IndexSet(blocks)

\* C10: in an unsigned dtype a value in strictly more than M / 2 places is
\* returned, the largest code of the dtype included
C10_StrictMajorityUnsigned ==
    kpc = "done" =>
        /\ result.status = "ok"
        /\ \A v \in WindowCodes : StrictMajority(v) => TheResult = v

----------------------------------------------------------------------------
(* Multiscales.store *)

\* Python dicts are functions from their keys; {} is the empty one
EmptyDict == [k \in {} |-> ""]

\* the values the chunks argument takes
None == [kind |-> "None"]
TupleOf(t) == [kind |-> "tuple", shape |-> t]
DictOf(d) == [kind |-> "dict", items |-> d]

\* the update that keeps the values already there
UpdateKeep(d, e) ==
    [k \in DOMAIN d \cup DOMAIN e |-> IF k \in DOMAIN d THEN d[k] ELSE e[k]]
\* d.update(e), and {**d, **e}: the values of e win
Update(d, e) ==
    [k \in DOMAIN d \cup DOMAIN e |-> IF k \in DOMAIN e THEN e[k] ELSE d[k]]

\* COSEMGroupMetadata.fromDataArrays(...).dict()
cosem_meta == [k \in {"name", "multiscales"} |-> "cosem"]
\* NeuroglancerN5GroupMetadata.fromDataArrays(...).dict()
neuroglancer_meta == [k \in {"scales", "axes"} |-> "neuroglancer"]

\* return {**cosem_meta, **neuroglancer_meta}
_group_metadata == Update(cosem_meta, neuroglancer_meta)

\* {"transform": SpatialTransform.fromDataArray(arr).dict()} for level i
_array_metadata(i) == [k \in {"transform"} |-> arrays[i].transform]

\* group_attrs as initialize_group receives it
group_attrs ==
    IF multiscale_metadata THEN Update(attrs, _group_metadata) ELSE attrs

\* array_attrs[k] as initialize_group receives it, for level i
array_attrs(i) ==
    LET own == IF propagate_array_attrs THEN arrays[i].attrs ELSE EmptyDict
    IN IF multiscale_metadata THEN Update(own, _array_metadata(i)) ELSE own

\* _chunks[key] for level i
_chunks(i) == IF chunks = None THEN TupleOf(arrays[i].chunksize) ELSE chunks

Levels == 1..Len(arrays)

\* the arguments of the call initialize_group(...)
InitializeGroupCall ==
    [group_attrs |-> group_attrs,
     array_paths |-> [i \in Levels |-> arrays[i].key],
     chunks |-> [i \in Levels |-> _chunks(i)],
     array_attrs |-> [i \in Levels |-> array_attrs(i)]]

\* fibsem_tools.io.initialize_group: creates the group, then one array per
\* path with the chunk shape and attrs given for it; a chunks value that is
\* no shape makes the creation of the first array fail
initialize_group(c) ==
    IF \A i \in DOMAIN c.chunks : c.chunks[i].kind = "tuple"
    THEN [raised |-> FALSE, attrs |-> c.group_attrs,
          arrays |-> [i \in DOMAIN c.chunks |->
                        [basename |-> c.array_paths[i],
                         chunks |-> c.chunks[i].shape,
                         attrs |-> c.array_attrs[i]]]]
    ELSE [raised |-> TRUE, attrs |-> c.group_attrs, arrays |-> << >>]

\* the misalignment test with np.all in the place of np.any
MisalignedAll(source_chunksize, store_chunks) ==
    \A a \in DOMAIN source_chunksize : source_chunksize[a] % store_chunks[a] > 0
\* the misalignment test with the operands of np.mod swapped
MisalignedSwapped(source_chunksize, store_chunks) ==
    \E a \in DOMAIN source_chunksize : store_chunks[a] % source_chunksize[a] > 0
\* np.any(np.mod(self.arrays[basename].data.chunksize, store_array.chunks) > 0)
Misaligned(source_chunksize, store_chunks) ==
    \E a \in DOMAIN source_chunksize : source_chunksize[a] % store_chunks[a] > 0

\* self.arrays[store_array.basename]
ArrayNamed(basename) ==
    arrays[CHOOSE i \in Levels : arrays[i].key = basename]

\* the handles of "if locking: ... store_arrays = locked_arrays", and the
\* plain handles of store_group otherwise
locked_arrays(store_group) ==
    [i \in DOMAIN store_group.arrays |->
        LET store_array == store_group.arrays[i]
        IN [basename |-> store_array.basename,
            chunks |-> store_array.chunks,
            locked |-> locking /\ Misaligned(ArrayNamed(store_array.basename).chunksize,
                                             store_array.chunks)]]

\* the chunks of an array of this shape, axis by axis: ceil(shape / chunk)
Grid(shape, chunk) ==
    [a \in DOMAIN shape |-> (shape[a] + chunk[a] - 1) \div chunk[a]]

Min(a, b) == IF a < b THEN a ELSE b

\* the destination chunks the region of source chunk c overlaps, in row-major
\* order
Touched(shape, source_chunksize, store_chunks, c) ==
    LET lo == [a \in DOMAIN shape |-> (c[a] * source_chunksize[a]) \div store_chunks[a]]
        hi == [a \in DOMAIN shape |->
                 (Min((c[a] + 1) * source_chunksize[a], shape[a]) - 1) \div store_chunks[a]]
        span == NdIndex([a \in DOMAIN shape |-> hi[a] - lo[a] + 1])
    IN [k \in DOMAIN span |-> [a \in DOMAIN shape |-> lo[a] + span[k][a]]]

\* fibsem_tools.io.dask.store_blocks: for every level one deferred write per
\* chunk of the source array, to the level's destination handle
store_blocks(handles) ==
    [op \in UNION {{<<i, c>> : c \in IndexSet(Grid(arrays[i].shape, arrays[i].chunksize))} :
                     i \in DOMAIN handles} |->
        [phase |-> "pending",
         todo |-> << >> \o Touched(arrays[op[1]].shape, arrays[op[1]].chunksize,
                                   handles[op[1]].chunks, op[2])]]

NoCall == [group_attrs |-> EmptyDict, array_paths |-> << >>,
           chunks |-> << >>, array_attrs |-> << >>]
NoGroup == [raised |-> FALSE, attrs |-> EmptyDict, arrays |-> << >>]

KernelIdle ==
    /\ array = << >> /\ window_size = << >> /\ blocks = << >>
    /\ bits = 0 /\ result = NoResult /\ kpc = "idle"

args == <<arrays, attrs, chunks, multiscale_metadata, propagate_array_attrs,
          locking, client>>

\* a call store(uri, chunks, multiscale_metadata, propagate_array_attrs,
\* locking, client)
Store ==
    /\ spc = "ready"
    /\ call' = InitializeGroupCall
    /\ group' = initialize_group(InitializeGroupCall)
    /\ IF group'.raised
       THEN /\ spc' = "StoreError"
            /\ UNCHANGED <<store_arrays, storage_ops>>
       ELSE IF locking /\ ~client
       THEN /\ spc' = "ValueError"
            /\ UNCHANGED <<store_arrays, storage_ops>>
       ELSE /\ store_arrays' = locked_arrays(group')
            /\ storage_ops' = store_blocks(store_arrays')
            /\ spc' = "returned"
    /\ UNCHANGED args
    /\ UNCHANGED kvars

Running == {op \in DOMAIN storage_ops : storage_ops[op].phase \in {"read", "writing"}}

\* a worker takes up a deferred write and reads its source region
ReadSource(op) ==
    /\ spc = "returned"
    /\ storage_ops[op].phase = "pending"
    /\ Cardinality(Running) < NWorkers
    /\ storage_ops' = [storage_ops EXCEPT ![op].phase = "read"]
    /\ UNCHANGED <<args, call, group, store_arrays, spc>>
    /\ UNCHANGED kvars

\* the destination chunk an operation is about to write or is writing
Target(op) == <<op[1], Head(storage_ops[op].todo)>>

Writing(op) == storage_ops[op].phase = "writing"

\* the write of the next destination chunk begins; through a lock-wrapped
\* handle it first acquires the chunk's lock
BeginWrite(op) ==
    /\ spc = "returned"
    /\ storage_ops[op].phase = "read"
    /\ store_arrays[op[1]].locked =>
          \A other \in DOMAIN storage_ops :
              Writing(other) => Target(other) # Target(op)
    /\ storage_ops' = [storage_ops EXCEPT ![op].phase = "writing"]
    /\ UNCHANGED <<args, call, group, store_arrays, spc>>
    /\ UNCHANGED kvars

\* the write of the chunk ends, and the lock, if any, is released
EndWrite(op) ==
    /\ spc = "returned"
    /\ storage_ops[op].phase = "writing"
    /\ storage_ops' = [storage_ops EXCEPT
          ![op].todo = Tail(@),
          ![op].phase = IF Len(storage_ops[op].todo) = 1 THEN "done" ELSE "read"]
    /\ UNCHANGED <<args, call, group, store_arrays, spc>>
    /\ UNCHANGED kvars

NextStore ==
    \/ Store
    \/ \E op \in DOMAIN storage_ops : ReadSource(op)
    \/ \E op \in DOMAIN storage_ops : BeginWrite(op)
    \/ \E op \in DOMAIN storage_ops : EndWrite(op)

\* the two levels of a pyramid over a 4 x 2 array
Level(key, shape, chunksize, own, transform) ==
    [key |-> key, shape |-> shape, chunksize |-> chunksize,
     attrs |-> own, transform |-> transform]

Dicts(keys) == UNION {[K -> {"own"}] : K \in SUBSET keys}

ChunkArgs ==
    {None}
    \cup {TupleOf(t) : t \in {<<1, 1>>, <<2, 1>>, <<2, 2>>, <<3, 2>>, <<4, 1>>, <<4, 2>>}}
    \cup {DictOf([k \in {"s0", "s1"} |-> IF k = "s0" THEN t0 ELSE t1]) :
            t0 \in {<<2, 2>>, <<3, 2>>}, t1 \in {<<1, 1>>}}

InitCall ==
    /\ call = NoCall /\ group = NoGroup
    /\ store_arrays = << >> /\ storage_ops = << >>
    /\ spc = "ready"
    /\ KernelIdle

\* store() for every native chunking, chunks argument, locking and client
InitStore ==
    /\ \E c0 \in {<<4, 2>>, <<3, 2>>, <<2, 2>>, <<2, 1>>}, c1 \in {<<2, 1>>, <<1, 1>>} :
          arrays = <<Level("s0", <<4, 2>>, c0, EmptyDict, "T0"),
                     Level("s1", <<2, 1>>, c1, EmptyDict, "T1")>>
    /\ attrs = EmptyDict
    /\ chunks \in ChunkArgs
    /\ multiscale_metadata = TRUE
    /\ propagate_array_attrs = TRUE
    /\ locking \in BOOLEAN
    /\ client \in BOOLEAN
    /\ InitCall

\* store() for every choice of attrs and of the two metadata flags
InitAttrs ==
    /\ \E a0, a1 \in Dicts({"transform", "foo"}) :
          arrays = <<Level("s0", <<4, 2>>, <<4, 2>>, a0, "T0"),
                     Level("s1", <<2, 1>>, <<2, 1>>, a1, "T1")>>
    /\ attrs \in Dicts({"multiscales", "title"})
    /\ chunks = None
    /\ multiscale_metadata \in BOOLEAN
    /\ propagate_array_attrs \in BOOLEAN
    /\ locking = FALSE
    /\ client = FALSE
    /\ InitCall

SpecStore == InitStore /\ [][NextStore]_vars
SpecAttrs == InitAttrs /\ [][NextStore]_vars

\* every call of the module, from every input above
Init ==
    \/ InitKernel \/ InitMajority \/ InitUnsigned \/ InitReduce
    \/ InitStore \/ InitAttrs
Next == Countless \/ ModeReduce \/ NextStore
Spec == Init /\ [][Next]_vars

----------------------------------------------------------------------------
(* Properties of Multiscales.store *)

\* C2: when store() raises for locking without a client, initialize_group has
\* not been called and the store holds nothing new
C2_RaisesBeforeCreation ==
    spc = "ValueError" => (call = NoCall /\ group = NoGroup)

\* the deferred writes of level i that touch destination chunk d
Writers(i, d) ==
    {c \in IndexSet(Grid(arrays[i].shape, arrays[i].chunksize)) :
        \E k \in DOMAIN Touched(arrays[i].shape, arrays[i].chunksize,
                                store_arrays[i].chunks, c) :
            Touched(arrays[i].shape, arrays[i].chunksize,
                    store_arrays[i].chunks, c)[k] = d}

DestChunks(i) == IndexSet(Grid(arrays[i].shape, store_arrays[i].chunks))

\* a chunk with several writers belongs to a lock-wrapped handle, a chunk of
\* an unwrapped handle has one writer, and no two operations are writing the
\* same chunk
WritesExclusive ==
    /\ \A i \in DOMAIN store_arrays : \A d \in DestChunks(i) :
          /\ Cardinality(Writers(i, d)) > 1 => store_arrays[i].locked
          /\ ~store_arrays[i].locked => Cardinality(Writers(i, d)) = 1
    /\ \A op, other \in DOMAIN storage_ops :
          (op # other /\ Writing(op) /\ Writing(other)) => Target(op) # Target(other)

ResolvedChunks(i) ==
    CASE chunks.kind = "dict" -> TupleOf(chunks.items[arrays[i].key])
      [] chunks.kind = "tuple" -> chunks
      [] chunks.kind = "None" -> TupleOf(arrays[i].chunksize)

\* C4: the chunk shape passed to the external store for level K is chunks[K]
\* for a mapping, the tuple for a tuple, the native chunk shape for None
C4_ChunksResolved ==
    call # NoCall => \A i \in Levels : call.chunks[i] = ResolvedChunks(i)

\* C5: with locking=True and a client, a handle is lock-wrapped exactly when
\* the native chunk size is no multiple of the destination chunk size on some
\* axis, and the handles are in level order, one per level
C5_WrappedIffMisaligned ==
    (spc = "returned" /\ locking /\ client) =>
        /\ Len(store_arrays) = Len(arrays)
        /\ \A i \in Levels :
              /\ store_arrays[i].basename = arrays[i].key
              /\ store_arrays[i].locked <=>
                    \E a \in DOMAIN arrays[i].chunksize :
                        arrays[i].chunksize[a] % group.arrays[i].chunks[a] # 0

\* level s0, native chunks (3, 2) against destination chunks (2, 1), is
\* wrapped and level s1, (2, 1) against (2, 1), is not
C5_Witness ==
    /\ spc = "returned" /\ locking /\ client
    /\ arrays[1].chunksize = <<3, 2>> /\ group.arrays[1].chunks = <<2, 1>>
    /\ store_arrays[1].locked
    /\ arrays[2].chunksize = <<2, 1>> /\ group.arrays[2].chunks = <<2, 1>>
    /\ ~store_arrays[2].locked

\* own overlaid by synth when enabled: the keys of both, synth's values first
Overlaid(got, own, synth, enabled) ==
    /\ DOMAIN got = DOMAIN own \cup (IF enabled THEN DOMAIN synth ELSE {})
    /\ \A k \in DOMAIN got :
          got[k] = IF enabled /\ k \in DOMAIN synth THEN synth[k] ELSE own[k]

\* C6: the attrs passed for a level are its own attrs (when propagated)
\* overlaid by the synthesized "transform" (when metadata is enabled), and the
\* group attrs are the collection's attrs overlaid by the group metadata
C6_AttrsOverlaid ==
    call # NoCall =>
        /\ \A i \in Levels :
              Overlaid(call.array_attrs[i],
                       IF propagate_array_attrs THEN arrays[i].attrs ELSE EmptyDict,
                       [k \in {"transform"} |-> arrays[i].transform],
                       multiscale_metadata)
        /\ Overlaid(call.group_attrs, attrs,
                    [k \in {"name", "multiscales", "scales", "axes"} |->
                        IF k \in {"name", "multiscales"} THEN "cosem" ELSE "neuroglancer"],
                    multiscale_metadata)

\* a level whose own attrs hold "transform" and "foo" was stored with the
\* synthesized transform and its own "foo"
C6_Witness ==
    /\ call # NoCall
    /\ multiscale_metadata /\ propagate_array_attrs
    /\ DOMAIN arrays[1].attrs = {"transform", "foo"}
    /\ call.array_attrs[1]["transform"] = "T0"
    /\ call.array_attrs[1]["foo"] = "own"
    /\ "multiscales" \in DOMAIN attrs
    /\ call.group_attrs["multiscales"] = "cosem"

====
